---------------------------- MODULE Spec2Model ----------------------------
(***************************************************************************)
(* PharmaSentinel: the pipeline orchestrator (agents/pipeline.py), the     *)
(* Decision Synthesizer and its alert writer (agents/overseer.py), the     *)
(* cleanup tool (agents/dedalus_tools.py) and the rule-based fallback      *)
(* engine (generate_fallback_decisions), the burn rates of the inventory  *)
(* collector (agents/agent_0_inventory.py, shared.calculate_burn_rate)    *)
(* the trigger gate of main.py (handle_db_change) with the quick run it  *)
(* launches, and the run function of each collector and downstream unit.  *)
(*                                                                         *)
(* Burn rates are whole days (the code only compares them with 3, 7 and   *)
(* 14); Python's None is NoBurn for a number and NoName / NoUrl for a *)
(* string.                                                                 *)
(***************************************************************************)
EXTENDS Integers, Sequences, FiniteSets, Bags, TLC

VARIABLES
    drugs,          \* rows of the drugs table (the inventory)
    shortages,      \* unresolved rows of the shortages table
    agent_logs,     \* rows of the agent_logs table (a bag: no reader uses
                    \* the order of the rows of different agents)
    alerts,         \* rows of the alerts table, in insertion order
    next_id,        \* the next primary key the alerts table hands out
    pc,             \* per run: where run_pipeline is
    col,            \* per run, per Phase-1 collector: state of its task
    results,        \* per run: the Run Report being built by run_pipeline
    calls,          \* per run: the units invoked so far, in order
    ov,             \* per run: the locals of overseer.run
    fb_in,          \* arguments of one call of generate_fallback_decisions
    fb_out,         \* its return value
    inv,            \* one drug on its way through agent_0 and the fallback
    gate,           \* listen_for_changes: the clock and its nonlocals
    unit_call       \* one call of run of a collector or downstream unit

dbVars == <<drugs, shortages, agent_logs, alerts, next_id>>
runVars == <<pc, col, results, calls>>
fbVars == <<fb_in, fb_out>>
auxVars == <<inv, gate, unit_call>>
vars == <<drugs, shortages, agent_logs, alerts, next_id, pc, col, results,
          calls, ov, fb_in, fb_out, inv, gate, unit_call>>

---------------------------------------------------------------------------
(* Bounds of the model *)

MaxBurn == 31       \* burn rates range over 0..MaxBurn days
NumRuns == 2        \* run tokens 1..NumRuns

---------------------------------------------------------------------------
(* Python values *)

NoBurn == 0 - 1                 \* None where a number is expected
NoName == "None"                \* None where a drug name is expected
NoUrl == "None"                 \* None where a URL is expected

Truthy(x) == x # NoBurn /\ x # 0

\* shared.MONITORED_DRUGS: name -> rank
MONITORED_DRUGS ==
    ( "Epinephrine" :> 1 @@ "Oxygen" :> 2 @@ "Levofloxacin" :> 3
   @@ "Propofol" :> 4 @@ "Penicillin" :> 5 @@ "IV Fluids" :> 6
   @@ "Heparin" :> 7 @@ "Insulin" :> 8 @@ "Morphine" :> 9
   @@ "Vaccines" :> 10 )

\* next((d for d in MONITORED_DRUGS if d['name'] == drug_name), None)
IsMonitored(drug_name) == drug_name \in DOMAIN MONITORED_DRUGS

Rank(drug_name) == MONITORED_DRUGS[drug_name]

\* "FDA" in shortage.get('source', '')
FDASources == {"FDA openFDA API"}
IsFDA(source) == source \in FDASources

---------------------------------------------------------------------------
(* generate_fallback_decisions *)

\* burn_rate = item.get('predicted_burn_rate_days') or item.get('burn_rate_days')
BurnRateOf(item) == IF Truthy(item.pred) THEN item.pred ELSE item.burn

\* shortage_map[drug_name]: the shortage rows of the drug, in list order
ShortagesOf(drug_name, shorts) ==
    SelectSeq(shorts, LAMBDA s : s.drug_name = drug_name)

ShortageEvidence(s) ==
    [source_type |-> IF IsFDA(s.source) THEN "FDA" ELSE "NEWS",
     source_url |-> s.source_url]

RECURSIVE MapEvidence(_)
MapEvidence(ss) ==
    IF ss = <<>> THEN <<>>
    ELSE <<ShortageEvidence(Head(ss))>> \o MapEvidence(Tail(ss))

\* evidence = [INVENTORY entry] + one entry per shortage row of the drug
EvidenceOf(drug_name, shorts) ==
    <<[source_type |-> "INVENTORY", source_url |-> NoUrl]>>
        \o MapEvidence(ShortagesOf(drug_name, shorts))

\* a severity rule that counts three days as critical
RestockSeverityInclusive(burn_rate) ==
    IF burn_rate <= 3 THEN "CRITICAL" ELSE "URGENT"

\* "severity": "CRITICAL" if burn_rate < 3 else "URGENT"
RestockSeverity(burn_rate) == IF burn_rate < 3 THEN "CRITICAL" ELSE "URGENT"

\* "urgency": "EMERGENCY" if burn_rate < 3 else "EXPEDITED"
OrderUrgency(burn_rate) == IF burn_rate < 3 THEN "EMERGENCY" ELSE "EXPEDITED"

\* if drug_info['rank'] <= 5: drugs_needing_substitutes.append(drug_name)
NeedsSubstitute(drug_name, shorts) == Rank(drug_name) <= 5

\* the elif branch: "severity": "WARNING"
WarningSeverity(drug_name, shorts) == "WARNING"

\* the elif branch appends nothing to drugs_needing_orders
WarningOrders(drug_name, shorts) == <<>>

EmptyOutcome == [decisions |-> <<>>, orders |-> <<>>, subs |-> <<>>]

\* the loop body without the "if not drug_info: continue" of line 173
FallbackItemUnfiltered(item, shorts) ==
    LET drug_name == item.name
        burn_rate == BurnRateOf(item)
    IN  IF burn_rate = NoBurn \/ drug_name = NoName THEN EmptyOutcome
        ELSE IF burn_rate < 7 THEN
            [decisions |-> <<[action_type |-> "RESTOCK_NOW",
                              severity |-> RestockSeverity(burn_rate),
                              drug_name |-> drug_name,
                              title |-> <<"Critically Low Stock", drug_name>>,
                              evidence |-> EvidenceOf(drug_name, shorts)]>>,
             orders |-> <<[drug_name |-> drug_name, quantity |-> 100,
                           urgency |-> OrderUrgency(burn_rate)]>>,
             subs |-> IF IsMonitored(drug_name)
                         /\ NeedsSubstitute(drug_name, shorts)
                      THEN <<drug_name>> ELSE <<>>]
        ELSE IF burn_rate < 14 THEN
            [decisions |-> <<[action_type |-> "SHORTAGE_WARNING",
                              severity |-> WarningSeverity(drug_name, shorts),
                              drug_name |-> drug_name,
                              title |-> <<"Monitor Stock", drug_name>>,
                              evidence |-> EvidenceOf(drug_name, shorts)]>>,
             orders |-> WarningOrders(drug_name, shorts),
             subs |-> <<>>]
        ELSE EmptyOutcome

\* one iteration of "for item in data_source"
FallbackItem(item, shorts) ==
    LET drug_name == item.name
        burn_rate == BurnRateOf(item)
    IN  IF burn_rate = NoBurn \/ drug_name = NoName THEN EmptyOutcome
        ELSE IF ~IsMonitored(drug_name) THEN EmptyOutcome
        ELSE IF burn_rate < 7 THEN
            [decisions |-> <<[action_type |-> "RESTOCK_NOW",
                              severity |-> RestockSeverity(burn_rate),
                              drug_name |-> drug_name,
                              title |-> <<"Critically Low Stock", drug_name>>,
                              evidence |-> EvidenceOf(drug_name, shorts)]>>,
             orders |-> <<[drug_name |-> drug_name, quantity |-> 100,
                           urgency |-> OrderUrgency(burn_rate)]>>,
             subs |-> IF NeedsSubstitute(drug_name, shorts)
                      THEN <<drug_name>> ELSE <<>>]
        ELSE IF burn_rate < 14 THEN
            [decisions |-> <<[action_type |-> "SHORTAGE_WARNING",
                              severity |-> WarningSeverity(drug_name, shorts),
                              drug_name |-> drug_name,
                              title |-> <<"Monitor Stock", drug_name>>,
                              evidence |-> EvidenceOf(drug_name, shorts)]>>,
             orders |-> WarningOrders(drug_name, shorts),
             subs |-> <<>>]
        ELSE EmptyOutcome

RECURSIVE FallbackLoop(_, _)
FallbackLoop(data_source, shorts) ==
    IF data_source = <<>> THEN EmptyOutcome
    ELSE LET h == FallbackItem(Head(data_source), shorts)
             t == FallbackLoop(Tail(data_source), shorts)
         IN  [decisions |-> h.decisions \o t.decisions,
              orders |-> h.orders \o t.orders,
              subs |-> h.subs \o t.subs]

\* data_source = inventory_analysis if inventory_analysis else inventory
DataSource(inventory, inventory_analysis) ==
    IF inventory_analysis # <<>> THEN inventory_analysis ELSE inventory

\* the returned dict: decisions, drugs_needing_orders (orders),
\* drugs_needing_substitutes (subs); schedule_adjustments is always []
generate_fallback_decisions(inventory, inventory_analysis, shorts) ==
    FallbackLoop(DataSource(inventory, inventory_analysis), shorts)


---------------------------------------------------------------------------
(* The tables *)

Runs == 1..NumRuns
Collectors == <<"agent_0", "agent_1", "agent_2">>
CollectorSet == {Collectors[i] : i \in 1..Len(Collectors)}

Row(name, pred, burn) == [name |-> name, pred |-> pred, burn |-> burn]

\* the inventories a run can find in the drugs table
Inventories ==
    { <<>>,
      <<Row("Heparin", 5, 5)>>,
      <<Row("Propofol", 5, 6), Row("Heparin", 10, 10)>> }

HeparinShortage ==
    [drug_name |-> "Heparin", source |-> "FDA openFDA API",
     source_url |-> "https://api.fda.gov", reported_date |-> "recent"]

ShortageTables == { <<>>, <<HeparinShortage>> }

\* a row of agent_logs
Finding(agent_name, run_id, kind, drug_analysis) ==
    [agent_name |-> agent_name, run_id |-> run_id, kind |-> kind,
     drug_analysis |-> drug_analysis]

\* the rows of an agent for a run token
FindingsOf(agent_name, run_id) ==
    {f \in BagToSet(agent_logs) :
        f.agent_name = agent_name /\ f.run_id = run_id}

\* log_agent_output: supabase.table('agent_logs').insert(..).execute()
LogInsert(f) == agent_logs (+) SetToBag({f})

\* a column the alert writer leaves out of the row it inserts
NotSet == "unset"

\* a row of alerts; the table's default for acknowledged is false; the
\* writer passes neither action_required nor source
Alert(id, run_id, d) ==
    [id |-> id, run_id |-> run_id, alert_type |-> d.action_type,
     severity |-> d.severity, drug_name |-> d.drug_name, title |-> d.title,
     evidence |-> d.evidence, acknowledged |-> FALSE,
     action_required |-> NotSet, source |-> NotSet]

\* f"{alert_type}|{drug_name}|{title}"
AlertKey(a) == <<a.alert_type, a.drug_name, a.title>>
DecisionKey(d) == <<d.action_type, d.drug_name, d.title>>

---------------------------------------------------------------------------
(* What the reasoning service can answer (call_dedalus) *)

Payload(kind, keys, decisions, orders, subs) ==
    [kind |-> kind, keys |-> keys, decisions |-> decisions,
     drugs_needing_orders |-> orders, drugs_needing_substitutes |-> subs]

AllKeys == {"decisions", "drugs_needing_orders", "drugs_needing_substitutes",
            "summary"}

NoPayload == Payload("unset", {}, <<>>, <<>>, <<>>)
PyNone == Payload("None", {}, <<>>, <<>>, <<>>)

\* return {"mock": True, "message": "Using placeholder API key"}
MockPayload == Payload("mock", {}, <<>>, <<>>, <<>>)

RestockHeparin ==
    [action_type |-> "RESTOCK_NOW", severity |-> "URGENT",
     drug_name |-> "Heparin", title |-> <<"Critically Low Stock", "Heparin">>,
     evidence |-> <<[source_type |-> "INVENTORY", source_url |-> NoUrl]>>]

\* a decision of the service that cites a news report and no inventory
RescheduleForPropofol ==
    [action_type |-> "SCHEDULE_CHANGE", severity |-> "WARNING",
     drug_name |-> "Propofol", title |-> <<"Reschedule", "Propofol">>,
     evidence |-> <<[source_type |-> "NEWS",
                     source_url |-> "https://news.example"]>>]

LLMPayloads ==
    { Payload("llm", AllKeys, <<RescheduleForPropofol>>, <<>>, <<>>),
      Payload("llm", AllKeys, <<RestockHeparin>>,
              <<[drug_name |-> "Heparin", quantity |-> 100,
                 urgency |-> "EXPEDITED"]>>, <<"Heparin">>),
      Payload("llm", AllKeys, <<RestockHeparin, RestockHeparin>>, <<>>, <<>>),
      Payload("llm", {"summary"}, <<>>, <<>>, <<>>) }

\* the fallback payload carries every key
FallbackPayload(inventory, inventory_analysis, shorts) ==
    LET f == generate_fallback_decisions(inventory, inventory_analysis, shorts)
    IN  Payload("fallback", AllKeys, f.decisions, f.orders, f.subs)

\* outcomes of call_dedalus: requests.RequestException, a ValueError of
\* parse_llm_json_response, a falsy JSON value, the placeholder-key mock,
\* or a parsed JSON object
LLMFailures == {"unreachable", "malformed"}
LLMOutcomes == LLMFailures \cup {"empty", "mock", "payload"}

\* call_dedalus(system_prompt, user_prompt_str, API_KEY_INDEX,
\*              EXPECTED_JSON_SCHEMA, tools=openai_tools):
\* call_dedalus takes no parameter named tools, so the call is a TypeError
ToolCallOutcome == "TypeError"

---------------------------------------------------------------------------
(* overseer.run(run_id), one storage or service call per step *)

InitOv ==
    [pc |-> "idle", llm |-> "none", inventory |-> <<>>,
     inventory_analysis |-> <<>>, unresolved_shortages |-> <<>>,
     payload |-> NoPayload, existing_keys |-> {}, cleanup_ids |-> {},
     result |-> NoPayload]

\* agent_outputs.get('agent_0', {}).get('drug_analysis', []): agent_outputs
\* keeps one row per agent among the rows of the run (a collector logs at
\* most one row per run)
AgentOutputAnalysis(run_id) ==
    LET rows == FindingsOf("agent_0", run_id)
    IN  IF rows = {} THEN <<>> ELSE (CHOOSE f \in rows : TRUE).drug_analysis

\* 1. Fetch data for context; a failed read is caught by run's except
OvFetch(r) ==
    /\ ov[r].pc = "fetch"
    /\ \E ok \in BOOLEAN :
        ov' = [ov EXCEPT ![r] =
                IF ok
                THEN [@ EXCEPT !.inventory = drugs,
                               !.inventory_analysis = AgentOutputAnalysis(r),
                               !.unresolved_shortages = shortages,
                               !.pc = "mcp"]
                ELSE [@ EXCEPT !.pc = "except"]]
    /\ UNCHANGED <<dbVars, runVars, fbVars, auxVars>>

\* the MCP server: "up" (connect and list_tools succeed), "down" (they raise
\* inside run_overseer_with_mcp, which falls back to the no-tool call),
\* "broken" (the import or Popen before it raises)
McpStates == {"up", "down", "broken"}

AfterMcp(m) ==
    CASE m = "up" -> "cleanup_select"
      [] m = "down" -> "llm"
      [] OTHER -> "except"

OvMcp(r) ==
    /\ ov[r].pc = "mcp"
    /\ \E m \in McpStates : ov' = [ov EXCEPT ![r].pc = AfterMcp(m)]
    /\ UNCHANGED <<dbVars, runVars, fbVars, auxVars>>

\* delete_redundant_entries, first call: select id where acknowledged = False
UnackIds == {alerts[i].id : i \in {j \in 1..Len(alerts) : ~alerts[j].acknowledged}}

OvCleanupSelect(r) ==
    /\ ov[r].pc = "cleanup_select"
    /\ \E ok \in BOOLEAN :
        ov' = [ov EXCEPT ![r] =
                IF ok /\ UnackIds # {}
                THEN [@ EXCEPT !.cleanup_ids = UnackIds, !.pc = "cleanup_delete"]
                ELSE [@ EXCEPT !.pc = "tool_call"]]
    /\ UNCHANGED <<dbVars, runVars, fbVars, auxVars>>

\* a cleanup that empties the table
DeleteEveryAlert(tbl, ids) == <<>>

\* delete_redundant_entries, second call: delete where id in ids_to_delete
DeleteIds(tbl, ids) == SelectSeq(tbl, LAMBDA a : a.id \notin ids)

OvCleanupDelete(r) ==
    /\ ov[r].pc = "cleanup_delete"
    /\ \E ok \in BOOLEAN :
        alerts' = IF ok THEN DeleteIds(alerts, ov[r].cleanup_ids) ELSE alerts
    /\ ov' = [ov EXCEPT ![r].pc = "tool_call"]
    /\ UNCHANGED <<drugs, shortages, agent_logs, next_id, runVars, fbVars, auxVars>>

\* Initial LLM call, with tools: raises, and the handler of
\* run_overseer_with_mcp goes on to the no-tool call
OvToolCall(r) ==
    /\ ov[r].pc = "tool_call"
    /\ ov' = [ov EXCEPT ![r].pc =
                IF ToolCallOutcome = "TypeError" THEN "llm" ELSE "write"]
    /\ UNCHANGED <<dbVars, runVars, fbVars, auxVars>>

\* if not analysis_payload: analysis_payload = generate_fallback_decisions(..)
SynthPayload(o, response) ==
    IF response = PyNone
    THEN FallbackPayload(o.inventory, o.inventory_analysis,
                         o.unresolved_shortages)
    ELSE response

\* where run goes once call_dedalus (no tools) ended with `outcome`
AfterLLM(outcome) == IF outcome \in LLMFailures THEN "except" ELSE "write"

\* return call_dedalus(system_prompt, user_prompt, API_KEY_INDEX, SCHEMA)
OvLLM(r) ==
    /\ ov[r].pc = "llm"
    /\ \E outcome \in LLMOutcomes :
        \E p \in IF outcome = "payload" THEN LLMPayloads
                 ELSE IF outcome = "mock" THEN {MockPayload} ELSE {PyNone} :
            ov' = [ov EXCEPT ![r] =
                    IF AfterLLM(outcome) = "write"
                    THEN [@ EXCEPT !.llm = outcome,
                                   !.payload = SynthPayload(ov[r], p),
                                   !.pc = "write"]
                    ELSE [@ EXCEPT !.llm = outcome, !.pc = "except"]]
    /\ UNCHANGED <<dbVars, runVars, fbVars, auxVars>>

\* existing_keys: the keys of the alerts already stored for this run_id
ExistingKeys(run_id) ==
    {AlertKey(alerts[i]) : i \in {j \in 1..Len(alerts) : alerts[j].run_id = run_id}}

OvReadExisting(r) ==
    /\ ov[r].pc = "write"
    /\ \E ok \in BOOLEAN :
        ov' = [ov EXCEPT ![r] =
                IF "decisions" \notin @.payload.keys THEN [@ EXCEPT !.pc = "log"]
                ELSE IF ok
                THEN [@ EXCEPT !.existing_keys = ExistingKeys(r), !.pc = "insert"]
                ELSE [@ EXCEPT !.pc = "except"]]
    /\ UNCHANGED <<dbVars, runVars, fbVars, auxVars>>

\* the loop over analysis_payload['decisions']: a decision is skipped when
\* its key is in existing_keys, which the loop never adds to
AlertsToInsert(decisions, existing_keys) ==
    SelectSeq(decisions, LAMBDA d : DecisionKey(d) \notin existing_keys)

NewAlerts(run_id, ds, first_id) ==
    [i \in 1..Len(ds) |-> Alert(first_id + i - 1, run_id, ds[i])]

OvInsert(r) ==
    /\ ov[r].pc = "insert"
    /\ LET ds == AlertsToInsert(ov[r].payload.decisions, ov[r].existing_keys)
       IN  \E ok \in BOOLEAN :
            IF ds = <<>>
            THEN /\ ov' = [ov EXCEPT ![r].pc = "log"]
                 /\ UNCHANGED <<alerts, next_id>>
            ELSE IF ok
            THEN /\ alerts' = alerts \o NewAlerts(r, ds, next_id)
                 /\ next_id' = next_id + Len(ds)
                 /\ ov' = [ov EXCEPT ![r].pc = "log"]
            ELSE /\ ov' = [ov EXCEPT ![r].pc = "except"]
                 /\ UNCHANGED <<alerts, next_id>>
    /\ UNCHANGED <<drugs, shortages, agent_logs, runVars, fbVars, auxVars>>

\* 5. Log final output; return analysis_payload
OvLog(r) ==
    /\ ov[r].pc = "log"
    /\ \E ok \in BOOLEAN :
        IF ok
        THEN /\ agent_logs' = LogInsert(Finding("overseer", r, "normal", <<>>))
             /\ ov' = [ov EXCEPT ![r].result = ov[r].payload, ![r].pc = "returned"]
        ELSE /\ ov' = [ov EXCEPT ![r].pc = "except"]
             /\ UNCHANGED agent_logs
    /\ UNCHANGED <<drugs, shortages, alerts, next_id, runVars, fbVars, auxVars>>

\* except Exception: log_agent_output(error payload), which re-raises when
\* the insert fails; return None
OvExcept(r) ==
    /\ ov[r].pc = "except"
    /\ \E ok \in BOOLEAN :
        IF ok
        THEN /\ agent_logs' = LogInsert(Finding("overseer", r, "error", <<>>))
             /\ ov' = [ov EXCEPT ![r].result = PyNone, ![r].pc = "returned"]
        ELSE /\ ov' = [ov EXCEPT ![r].pc = "raised"]
             /\ UNCHANGED agent_logs
    /\ UNCHANGED <<drugs, shortages, alerts, next_id, runVars, fbVars, auxVars>>

OvStep(r) ==
    \/ OvFetch(r) \/ OvMcp(r) \/ OvCleanupSelect(r) \/ OvCleanupDelete(r)
    \/ OvToolCall(r) \/ OvLLM(r) \/ OvReadExisting(r) \/ OvInsert(r)
    \/ OvLog(r) \/ OvExcept(r)

---------------------------------------------------------------------------
(* run_phase_1_parallel: the three collector tasks of a run *)

\* the drug_analysis of a normal agent_0 payload: one row per drug, or none
\* (the reasoning service answered without it); other agents carry none
AnalysisChoices(a) == IF a = "agent_0" THEN {drugs, <<>>} ELSE {<<>>}

\* agent_0 and agent_1 (and agent_3, agent_4) re-raise from their except
\* clause, agent_2 does not
CollectorErrorExit(a) == IF a = "agent_2" THEN "returned" ELSE "raised"

\* the body of the collector's try block, up to its log_agent_output
CollectorWork(r, a) ==
    /\ col[r][a] = "running"
    /\ \E ok \in BOOLEAN :
        col' = [col EXCEPT ![r][a] = IF ok THEN "logging_ok" ELSE "logging_err"]
    /\ UNCHANGED <<dbVars, pc, results, calls, ov, fbVars, auxVars>>

\* log_agent_output of the normal payload, or of the error payload in the
\* except clause; the insert itself can raise
CollectorLog(r, a) ==
    /\ \/ /\ col[r][a] = "logging_ok"
          /\ \E da \in AnalysisChoices(a), ok \in BOOLEAN :
                IF ok
                THEN /\ agent_logs' = LogInsert(Finding(a, r, "normal", da))
                     /\ col' = [col EXCEPT ![r][a] = "returned"]
                ELSE /\ col' = [col EXCEPT ![r][a] = "logging_err"]
                     /\ UNCHANGED agent_logs
       \/ /\ col[r][a] = "logging_err"
          /\ \E ok \in BOOLEAN :
                IF ok
                THEN /\ agent_logs' = LogInsert(Finding(a, r, "error", <<>>))
                     /\ col' = [col EXCEPT ![r][a] = CollectorErrorExit(a)]
                ELSE /\ col' = [col EXCEPT ![r][a] = "raised"]
                     /\ UNCHANGED agent_logs
    /\ UNCHANGED <<drugs, shortages, alerts, next_id, pc, results, calls, ov, fbVars, auxVars>>

\* a gather that propagates the first exception instead of collecting it
Phase1JoinedOnFirstRaise(c) ==
    \/ \E a \in CollectorSet : c[a] = "raised"
    \/ \A a \in CollectorSet : c[a] = "returned"

\* await asyncio.gather(*tasks, return_exceptions=True): every task has an
\* outcome
Phase1Joined(c) == \A a \in CollectorSet : c[a] \in {"returned", "raised"}

\* isinstance(result, Exception)
Phase1Status(c) ==
    [a \in CollectorSet |-> IF c[a] = "raised" THEN "failed" ELSE "success"]

---------------------------------------------------------------------------
(* run_pipeline *)

InitResults ==
    [status |-> "none", errors |-> <<>>,
     phase_1 |-> [a \in CollectorSet |-> "none"],
     phase_2 |-> "none", phase_3 |-> "none", phase_4 |-> "none"]

\* run_id = uuid.uuid4(); Phase 1 submits the three tasks to the executor
StartRun(r) ==
    /\ pc[r] = "idle"
    /\ pc' = [pc EXCEPT ![r] = "phase1"]
    /\ col' = [col EXCEPT ![r] = [a \in CollectorSet |-> "running"]]
    /\ calls' = [calls EXCEPT ![r] = @ \o Collectors]
    /\ UNCHANGED <<dbVars, results, ov, fbVars, auxVars>>

\* run_phase_1_parallel returns; Phase 2 calls overseer.run(run_id)
Phase1Join(r) ==
    /\ pc[r] = "phase1"
    /\ Phase1Joined(col[r])
    /\ results' = [results EXCEPT ![r].phase_1 = Phase1Status(col[r])]
    /\ pc' = [pc EXCEPT ![r] = "phase2"]
    /\ ov' = [ov EXCEPT ![r].pc = "fetch"]
    /\ calls' = [calls EXCEPT ![r] = Append(@, "overseer")]
    /\ UNCHANGED <<dbVars, col, fbVars, auxVars>>

\* overseer.run raised, or "not overseer_result"
Phase2Failed(o) == o.pc = "raised" \/ o.result = PyNone

\* a run_pipeline that goes on to the conditional phases whatever Phase 2 did
AfterPhase2Continue(o) == "phase3"

\* where run_pipeline goes after Phase 2
AfterPhase2(o) == IF Phase2Failed(o) THEN "raised" ELSE "phase3"

\* the try/except around overseer.run, the "if not overseer_result" and the
\* outer except of run_pipeline
Phase2Done(r) ==
    /\ pc[r] = "phase2"
    /\ ov[r].pc \in {"returned", "raised"}
    /\ pc' = [pc EXCEPT ![r] = AfterPhase2(ov[r])]
    /\ results' = [results EXCEPT ![r] =
            IF AfterPhase2(ov[r]) = "phase3"
            THEN [@ EXCEPT !.phase_2 = "success"]
            ELSE IF ov[r].pc = "raised"
            THEN [@ EXCEPT !.phase_2 = "failed",
                           !.errors = @ \o <<"Phase 2 (Overseer)", "Pipeline failure">>,
                           !.status = "failed"]
            ELSE [@ EXCEPT !.phase_2 = "success",
                           !.errors = Append(@, "Pipeline failure"),
                           !.status = "failed"]]
    /\ UNCHANGED <<dbVars, col, calls, ov, fbVars, auxVars>>

\* a run_pipeline that enters a conditional phase whatever the list holds
NeededAlways(list) == TRUE

\* if drugs_needing_substitutes: / if drugs_needing_orders:
Needed(list) == list # <<>>

\* PHASE 3: agent_3_substitutes.run when the list is not empty
Phase3(r) ==
    /\ pc[r] = "phase3"
    /\ \E ok \in BOOLEAN :
        IF Needed(ov[r].result.drugs_needing_substitutes)
        THEN /\ calls' = [calls EXCEPT ![r] = Append(@, "agent_3")]
             /\ results' = [results EXCEPT ![r] =
                    IF ok THEN [@ EXCEPT !.phase_3 = "success"]
                    ELSE [@ EXCEPT !.phase_3 = "failed",
                                   !.errors = Append(@, "Phase 3 (Substitutes)")]]
        ELSE /\ results' = [results EXCEPT ![r].phase_3 = "skipped"]
             /\ UNCHANGED calls
    /\ pc' = [pc EXCEPT ![r] = "phase4"]
    /\ UNCHANGED <<dbVars, col, ov, fbVars, auxVars>>

\* a status line that does not read the error list
OverallStatusSuccess(errors) == "success"

\* results["status"] = "completed_with_errors" if results["errors"] else "success"
OverallStatus(errors) ==
    IF errors # <<>> THEN "completed_with_errors" ELSE "success"

\* PHASE 4: agent_4_orders.run when the list is not empty; PIPELINE COMPLETE
Phase4(r) ==
    /\ pc[r] = "phase4"
    /\ \E ok \in BOOLEAN :
        LET invoked == Needed(ov[r].result.drugs_needing_orders)
            errs == IF invoked /\ ~ok
                    THEN Append(results[r].errors, "Phase 4 (Orders)")
                    ELSE results[r].errors
        IN  /\ calls' = [calls EXCEPT ![r] =
                    IF invoked THEN Append(@, "agent_4") ELSE @]
            /\ results' = [results EXCEPT ![r] =
                    [@ EXCEPT !.phase_4 = IF ~invoked THEN "skipped"
                                          ELSE IF ok THEN "success" ELSE "failed",
                              !.errors = errs,
                              !.status = OverallStatus(errs)]]
    /\ pc' = [pc EXCEPT ![r] = "returned"]
    /\ UNCHANGED <<dbVars, col, ov, fbVars, auxVars>>

---------------------------------------------------------------------------
(* Spec: one full run of run_pipeline over a database earlier runs left *)

\* an alert an earlier run (token 0) left in the table
OldAlert(id, ack) == [Alert(id, 0, RestockHeparin) EXCEPT !.acknowledged = ack]

InitialAlerts ==
    { <<>>, <<OldAlert(1, FALSE)>>, <<OldAlert(1, TRUE)>>,
      <<OldAlert(1, TRUE), OldAlert(2, FALSE)>> }

NoCall ==
    [inventory |-> <<>>, inventory_analysis |-> <<>>, shortages |-> <<>>]

NotCalled == [called |-> FALSE, res |-> EmptyOutcome]

\* calculate_burn_rate's result: None, or the quotient it returns
NoRate == [is_none |-> TRUE, num |-> 0, den |-> 1]
Quotient(n, d) ==
    IF d < 0 THEN [is_none |-> FALSE, num |-> 0 - n, den |-> 0 - d]
    ELSE [is_none |-> FALSE, num |-> n, den |-> d]

\* no drug is under analysis
InvIdle ==
    [pc |-> "idle", name |-> NoName, stock |-> 0, usage |-> 0, demand |-> 0,
     shorts |-> <<>>, burn |-> NoRate, row |-> Row(NoName, NoBurn, NoBurn),
     out |-> EmptyOutcome, criticality_rank |-> 99, risk_level |-> "none"]

\* run_quick_pipeline was not called
QuickIdle == [pc |-> "none", calls |-> <<>>, status |-> "unset",
              errors |-> <<>>]

\* main() has not reached listen_for_changes; own_writes counts the change
\* events of pipeline writes not yet delivered, cause is the origin of the
\* event that launched the last quick run, full_runs the calls of
\* run_pipeline listen_for_changes has made, edits the changes of drugs rows
\* made from outside the pipeline that the callback has handled,
\* quick_failures the quick runs that raised; uuids counts the values
\* uuid.uuid4() has handed out, run_tokens are the run_id of the runs
\* started, response_id and manual_token the id in the response of the last
\* POST /api/run-pipeline and the run_id of the run it started
GateIdle ==
    [pc |-> "idle", now |-> 0, last_run_time |-> 0, skip_count |-> 0,
     seen |-> 0, launched |-> 0, last |-> "none", own_writes |-> 0,
     cause |-> "none", quick |-> QuickIdle, full_runs |-> 0, edits |-> 0,
     quick_failures |-> 0, uuids |-> 0, run_tokens |-> {}, manual_runs |-> 0,
     response_id |-> 0, manual_token |-> 0]

\* no unit is under way; llm is the outcome of its reasoning call, analysis
\* the kind of payload it holds, logged the payloads it has logged
UnitIdle ==
    [agent |-> "none", pc |-> "idle", llm |-> "none", analysis |-> "none",
     io_failed |-> FALSE, logged |-> <<>>]

InitRuns ==
    /\ agent_logs = EmptyBag
    /\ next_id = Len(alerts) + 1
    /\ pc = [r \in Runs |-> "idle"]
    /\ col = [r \in Runs |-> [a \in CollectorSet |-> "pending"]]
    /\ results = [r \in Runs |-> InitResults]
    /\ calls = [r \in Runs |-> <<>>]
    /\ ov = [r \in Runs |-> InitOv]

Init ==
    /\ drugs \in Inventories
    /\ shortages \in ShortageTables
    /\ alerts \in InitialAlerts
    /\ InitRuns
    /\ fb_in = NoCall
    /\ fb_out = NotCalled
    /\ inv = InvIdle
    /\ gate = GateIdle
    /\ unit_call = UnitIdle

\* the run of this behaviour: the first token, started once
FirstRun(r) ==
    /\ r = 1
    /\ StartRun(r)

Next ==
    \E r \in Runs :
        \/ FirstRun(r)
        \/ \E a \in CollectorSet : CollectorWork(r, a)
        \/ \E a \in CollectorSet : CollectorLog(r, a)
        \/ Phase1Join(r)
        \/ OvStep(r)
        \/ Phase2Done(r)
        \/ Phase3(r)
        \/ Phase4(r)

Spec == Init /\ [][Next]_vars

---------------------------------------------------------------------------
(* Properties of run_pipeline, checked under Spec *)

Invoked(r, unit) == \E i \in 1..Len(calls[r]) : calls[r][i] = unit

Finished(r) == pc[r] \in {"returned", "raised"}

OverseerFinished(r) == ov[r].pc \in {"returned", "raised"}

\* C1: in every run, agent_3_substitutes.run and agent_4_orders.run are not
\* invoked before overseer.run of that run has finished; and when Phase 2
\* fails (overseer.run raises or yields no result) neither is invoked at all
\* and, once run_pipeline has handled the failure, the run's status is
\* "failed" and the run has ended by re-raising.
C1_PhaseOrdering ==
    \A r \in Runs :
        /\ (Invoked(r, "agent_3") \/ Invoked(r, "agent_4"))
              => /\ OverseerFinished(r)
                 /\ Invoked(r, "overseer")
        /\ (OverseerFinished(r) /\ Phase2Failed(ov[r]))
              => /\ ~Invoked(r, "agent_3")
                 /\ ~Invoked(r, "agent_4")
                 /\ pc[r] # "phase2"
                      => /\ pc[r] = "raised"
                         /\ results[r].status = "failed"

\* a run whose overseer returned None, ended as failed with no later phase
C1_Witness ==
    \E r \in Runs :
        /\ ov[r].pc = "returned"
        /\ ov[r].result = PyNone
        /\ pc[r] = "raised"
        /\ results[r].status = "failed"
        /\ results[r].phase_3 = "none"
        /\ ~Invoked(r, "agent_3")
        /\ ~Invoked(r, "agent_4")

\* C2: whatever subset of the three Phase-1 collectors raises and however the
\* three tasks interleave, every collector that does not raise runs to
\* completion with a Finding for the run token in agent_logs, no task is left
\* unfinished when run_phase_1_parallel returns, and run_phase_1_parallel
\* returns a result map with one status per collector.
C2_FanOutIsolation ==
    \A r \in Runs :
        /\ \A a \in CollectorSet :
              col[r][a] = "returned" => FindingsOf(a, r) # {}
        /\ pc[r] \notin {"idle", "phase1"}
              => \A a \in CollectorSet :
                    /\ col[r][a] \in {"returned", "raised"}
                    /\ results[r].phase_1[a] =
                          IF col[r][a] = "raised" THEN "failed" ELSE "success"

\* Phase 1 is over, agent_0 raised, the other two completed and logged
C2_Witness ==
    \E r \in Runs :
        /\ pc[r] = "phase2"
        /\ col[r]["agent_0"] = "raised"
        /\ col[r]["agent_1"] = "returned"
        /\ col[r]["agent_2"] = "returned"
        /\ FindingsOf("agent_1", r) # {}
        /\ FindingsOf("agent_2", r) # {}
        /\ results[r].phase_1["agent_0"] = "failed"
        /\ results[r].phase_1["agent_1"] = "success"

\* the status the phase outcomes determine: failed iff Phase 2 failed, else
\* completed_with_errors iff a collector, Phase 3 or Phase 4 failed
StatusOfOutcomes(r) ==
    IF Phase2Failed(ov[r]) THEN "failed"
    ELSE IF \/ \E a \in CollectorSet : col[r][a] = "raised"
            \/ results[r].phase_3 = "failed"
            \/ results[r].phase_4 = "failed"
         THEN "completed_with_errors"
         ELSE "success"

\* C3: the overall status of a finished full run is "failed" iff Phase 2
\* failed, otherwise "completed_with_errors" iff a Phase-1 collector, Phase 3
\* or Phase 4 failed, otherwise "success"; a run in which a collector raised
\* and every later phase succeeded is "completed_with_errors".
C3_StatusFunction ==
    \A r \in Runs : Finished(r) => results[r].status = StatusOfOutcomes(r)

\* a task of the run is inside its collector
Executing(r, a) == col[r][a] \in {"running", "logging_ok", "logging_err"}

\* overseer.run of the run is between its call and its return
OverseerExecuting(r) == ov[r].pc \notin {"idle", "returned", "raised"}

\* the positions of a unit in the run's call sequence
CallsOf(r, unit) == {i \in 1..Len(calls[r]) : calls[r][i] = unit}

\* C25: in every full run overseer.run does not start until all three
\* Phase-1 collector tasks have an outcome; no collector task of a run is
\* executing while that run's Phase 2, 3 or 4 executes, and Phases 2, 3 and
\* 4 of a run never overlap.
C25_PhasesSequential ==
    \A r \in Runs :
        /\ \A a \in CollectorSet : Executing(r, a) => pc[r] = "phase1"
        /\ Invoked(r, "overseer")
              => \A a \in CollectorSet : col[r][a] \in {"returned", "raised"}
        /\ OverseerExecuting(r) => pc[r] = "phase2"
        /\ pc[r] \in {"phase3", "phase4"} => OverseerFinished(r)
        /\ \A i \in CallsOf(r, "overseer") :
              \A j \in CallsOf(r, "agent_3") \cup CallsOf(r, "agent_4") : i < j
        /\ \A i \in CallsOf(r, "agent_3") :
              \A j \in CallsOf(r, "agent_4") : i < j

\* overseer.run is at its reasoning call after a Phase 1 in which one
\* collector raised and two returned
C25_Witness ==
    \E r \in Runs :
        /\ pc[r] = "phase2"
        /\ ov[r].pc = "llm"
        /\ col[r]["agent_1"] = "raised"
        /\ col[r]["agent_0"] = "returned"
        /\ col[r]["agent_2"] = "returned"

\* C26: in a full run whose Phase 2 succeeded, the Substitute Finder is
\* invoked iff drugs_needing_substitutes is non-empty and the Order Manager
\* iff drugs_needing_orders is non-empty; a phase that is not invoked is
\* recorded as 'skipped'; each of the two is invoked at most once.
C26_ConditionalPhases ==
    \A r \in Runs :
        /\ Cardinality(CallsOf(r, "agent_3")) <= 1
        /\ Cardinality(CallsOf(r, "agent_4")) <= 1
        /\ pc[r] \in {"phase4", "returned"} =>
              /\ Invoked(r, "agent_3")
                    <=> ov[r].result.drugs_needing_substitutes # <<>>
              /\ results[r].phase_3 = "skipped" <=> ~Invoked(r, "agent_3")
        /\ pc[r] = "returned" =>
              /\ Invoked(r, "agent_4")
                    <=> ov[r].result.drugs_needing_orders # <<>>
              /\ results[r].phase_4 = "skipped" <=> ~Invoked(r, "agent_4")

\* a finished run whose Synthesizer asked for orders and for no substitute:
\* Phase 3 was skipped and the Order Manager ran once
C26_Witness ==
    \E r \in Runs :
        /\ pc[r] = "returned"
        /\ ov[r].result.drugs_needing_substitutes = <<>>
        /\ ov[r].result.drugs_needing_orders # <<>>
        /\ results[r].phase_3 = "skipped"
        /\ Cardinality(CallsOf(r, "agent_4")) = 1

\* the error list names the phase
Recorded(r, phase) ==
    \E i \in 1..Len(results[r].errors) : results[r].errors[i] = phase

\* C27: a failure of the Substitute Finder does not abort the run: Phase 4
\* is still evaluated and the Order Manager is invoked when orders are
\* needed; a failure of Phase 3 or Phase 4 is recorded in the error list,
\* the run returns normally and its status is 'completed_with_errors'.
C27_DownstreamFailureNonFatal ==
    \A r \in Runs :
        /\ results[r].phase_3 = "failed" =>
              /\ pc[r] \in {"phase4", "returned"}
              /\ Recorded(r, "Phase 3 (Substitutes)")
              /\ pc[r] = "returned" =>
                    /\ results[r].phase_4 # "none"
                    /\ ov[r].result.drugs_needing_orders # <<>>
                          => Invoked(r, "agent_4")
        /\ results[r].phase_4 = "failed" =>
              /\ pc[r] = "returned"
              /\ Recorded(r, "Phase 4 (Orders)")
        /\ (Finished(r) /\ "failed" \in {results[r].phase_3, results[r].phase_4})
              => /\ pc[r] = "returned"
                 /\ results[r].status = "completed_with_errors"

\* the Substitute Finder failed, the Order Manager ran and succeeded, and
\* the run returned as completed_with_errors
C27_Witness ==
    \E r \in Runs :
        /\ pc[r] = "returned"
        /\ results[r].phase_3 = "failed"
        /\ results[r].phase_4 = "success"
        /\ Invoked(r, "agent_4")
        /\ results[r].status = "completed_with_errors"

\* C28: every invocation of run_pipeline terminates by handing its caller
\* a Run Report with a status and a list of error strings, also when
\* synthesis fails; the report of a failed run is not lost.
C28_ReportAlwaysReturned ==
    \A r \in Runs :
        Finished(r) => /\ pc[r] = "returned"
                       /\ results[r].status # "none"

---------------------------------------------------------------------------
(* Properties of overseer.run and its alert writer *)

AlertsOf(run_id, key) ==
    {i \in 1..Len(alerts) :
        alerts[i].run_id = run_id /\ AlertKey(alerts[i]) = key}

\* C4: whatever list of Decisions overseer.run hands to its alert writer in a
\* run and whatever the alerts table held, at most one Alert with that run
\* token exists per triple (alert_type, drug_name, title), also when the
\* list holds the same triple twice.
C4_UniqueTriplePerRun ==
    \A r \in Runs :
        \A i, j \in 1..Len(alerts) :
            (/\ alerts[i].run_id = r
             /\ alerts[j].run_id = r
             /\ AlertKey(alerts[i]) = AlertKey(alerts[j])) => i = j

RestockKey == DecisionKey(RestockHeparin)

\* overseer.run of r returned a payload deciding RESTOCK_NOW for Heparin
\* under the common title: its alert writer ran without an exception
DecidedRestock(r) ==
    /\ ov[r].pc = "returned"
    /\ \E i \in 1..Len(ov[r].result.decisions) :
          DecisionKey(ov[r].result.decisions[i]) = RestockKey

\* C5: when the runs, under different run tokens and however interleaved,
\* each decide RESTOCK_NOW for the same drug under the same title, then once
\* they have all finished an Alert with that triple is stored for each run
\* token.
C5_OneAlertPerRunToken ==
    (\A r \in Runs : Finished(r) /\ DecidedRestock(r))
        => \A r \in Runs : AlertsOf(r, RestockKey) # {}

\* C6: when the call to the reasoning service raises or answers with
\* something unparsable, overseer.run still returns the result of
\* generate_fallback_decisions over the data it fetched, with an Alert stored
\* for each of its decisions.
C6_FallbackOnReasoningFailure ==
    \A r \in Runs :
        (ov[r].llm \in LLMFailures /\ ov[r].pc = "returned")
            => /\ ov[r].result =
                     FallbackPayload(ov[r].inventory, ov[r].inventory_analysis,
                                     ov[r].unresolved_shortages)
               /\ \A i \in 1..Len(ov[r].result.decisions) :
                     AlertsOf(r, DecisionKey(ov[r].result.decisions[i])) # {}

\* C7: whatever its collaborators do (reasoning service, storage reads and
\* writes, empty tables), overseer.run never raises and returns a structure
\* holding decisions, drugs_needing_substitutes, drugs_needing_orders and
\* summary.
C7_NeverRaisesWellFormed ==
    \A r \in Runs :
        /\ ov[r].pc # "raised"
        /\ ov[r].pc = "returned" => AllKeys \subseteq ov[r].result.keys

\* C15: every Decision that overseer.run persists as an Alert, from the
\* reasoning service or from the fallback rule engine, carries at least one
\* Evidence entry of source_type INVENTORY.
C15_InventoryEvidenceOnEveryAlert ==
    \A i \in 1..Len(alerts) :
        alerts[i].run_id \in Runs =>
            \E j \in 1..Len(alerts[i].evidence) :
                alerts[i].evidence[j].source_type = "INVENTORY"

\* the fixed table of the specification, as the column would hold it
ActionRequiredTable ==
    [RESTOCK_NOW |-> "true", SCHEDULE_CHANGE |-> "true",
     SUPPLY_CHAIN_RISK |-> "true", SHORTAGE_WARNING |-> "false",
     SUBSTITUTE_RECOMMENDED |-> "false"]

\* C17: every Alert persisted by the alert writer carries action_required
\* computed from its action type alone by the fixed table: true for
\* RESTOCK_NOW, SCHEDULE_CHANGE, SUPPLY_CHAIN_RISK; false for
\* SHORTAGE_WARNING and SUBSTITUTE_RECOMMENDED.
C17_ActionRequiredByType ==
    \A i \in 1..Len(alerts) :
        alerts[i].run_id \in Runs =>
            /\ alerts[i].alert_type \in DOMAIN ActionRequiredTable
            /\ alerts[i].action_required
                   = ActionRequiredTable[alerts[i].alert_type]

\* the source the specification derives from an evidence list
ExternalUrls(evidence) ==
    SelectSeq(evidence, LAMBDA e : e.source_url # NoUrl)

SourceOfEvidence(evidence) ==
    IF ExternalUrls(evidence) # <<>>
    THEN Head(ExternalUrls(evidence)).source_url
    ELSE IF \E j \in 1..Len(evidence) : evidence[j].source_type = "INVENTORY"
    THEN "Stock"
    ELSE NoName

\* C18: the 'source' of a persisted Alert is the URL of its first Evidence
\* entry with an external URL, else the literal "Stock" when it has an
\* INVENTORY Evidence entry, else empty.
C18_SourceFromEvidence ==
    \A i \in 1..Len(alerts) :
        alerts[i].run_id \in Runs =>
            alerts[i].source = SourceOfEvidence(alerts[i].evidence)

\* the run's call of delete_redundant_entries is under way
InCleanup(r) == ov[r].pc \in {"cleanup_select", "cleanup_delete"}

\* C38: delete_redundant_entries removes every Alert that is unacknowledged
\* when it is called and nothing else: acknowledged Alerts and the other
\* tables stay as they are; it does not raise, and when it fails the table
\* is untouched and synthesis goes on with the input it had fetched.
C38_CleanupFrame ==
    [][\A r \in Runs :
        (InCleanup(r) /\ ov'[r] # ov[r]) =>
            /\ ov'[r].pc \in {"cleanup_delete", "tool_call"}
            /\ \/ alerts' = alerts
               \/ /\ ov[r].pc = "cleanup_delete"
                  /\ alerts' = SelectSeq(alerts, LAMBDA a : a.acknowledged)
            /\ UNCHANGED <<drugs, shortages, agent_logs>>
            /\ ov'[r].inventory = ov[r].inventory
            /\ ov'[r].inventory_analysis = ov[r].inventory_analysis
            /\ ov'[r].unresolved_shortages = ov[r].unresolved_shortages]_vars

\* the cleanup deleted the unacknowledged Alert and kept the acknowledged
\* one, and the reasoning call is next
C38_Witness ==
    /\ ov[1].pc = "tool_call"
    /\ ov[1].cleanup_ids = {2}
    /\ alerts = <<OldAlert(1, TRUE)>>

\* C33: whenever a full run ends with status "failed" because of Phase 2
\* (overseer.run raised, or returned no result), the report's phase_2
\* entry has result "failed" and its error list has an entry naming the
\* Phase 2 failure.
C33_Phase2FailureReported ==
    \A r \in Runs :
        (pc[r] = "raised" /\ results[r].status = "failed"
            /\ Phase2Failed(ov[r]))
        => /\ results[r].phase_2 = "failed"
           /\ \E i \in 1..Len(results[r].errors) :
                 results[r].errors[i] = "Phase 2 (Overseer)"

\* the collector's run ended in its error path: it raised, or its except
\* clause logged the error payload
CollectorFailed(r, a) ==
    \/ col[r][a] = "raised"
    \/ \E f \in FindingsOf(a, r) : f.kind = "error"

\* C34: for each of the three Phase-1 collectors, the status recorded in the
\* Phase-1 results is "failed" if and only if the collector's run failed;
\* no collector that failed is reported as "success".
C34_CollectorStatusFaithful ==
    \A r \in Runs : \A a \in CollectorSet :
        results[r].phase_1[a] # "none" =>
            (results[r].phase_1[a] = "failed" <=> CollectorFailed(r, a))

\* key = (alert['drug_name'], alert['alert_type'], alert['severity'])
ActiveKey(a) == <<a.drug_name, a.alert_type, a.severity>>

\* C32: once the runs that were started have finished, no two
\* unacknowledged Alerts share (drug_name, alert_type, severity).
C32_NoDuplicateActiveAlerts ==
    ((\E r \in Runs : Finished(r))
        /\ (\A r \in Runs : pc[r] = "idle" \/ Finished(r)))
    => \A i, j \in 1..Len(alerts) :
          (/\ ~alerts[i].acknowledged
           /\ ~alerts[j].acknowledged
           /\ ActiveKey(alerts[i]) = ActiveKey(alerts[j])) => i = j

---------------------------------------------------------------------------
(* ConcSpec: full runs in flight together (manual triggers of server.py, *)
(* the scheduled loop), their Phase 1 taken as one step without failures *)

\* Phase 1 of a run in which every collector logs its normal payload
Phase1Quiet(r) ==
    /\ pc[r] = "idle"
    /\ \E da \in AnalysisChoices("agent_0") :
        agent_logs' = agent_logs
            (+) SetToBag({Finding("agent_0", r, "normal", da),
                          Finding("agent_1", r, "normal", <<>>),
                          Finding("agent_2", r, "normal", <<>>)})
    /\ col' = [col EXCEPT ![r] = [a \in CollectorSet |-> "returned"]]
    /\ results' = [results EXCEPT ![r].phase_1 = Phase1Status(col'[r])]
    /\ pc' = [pc EXCEPT ![r] = "phase2"]
    /\ ov' = [ov EXCEPT ![r].pc = "fetch"]
    /\ calls' = [calls EXCEPT ![r] = @ \o Collectors \o <<"overseer">>]
    /\ UNCHANGED <<drugs, shortages, alerts, next_id, fbVars, auxVars>>

ConcInit ==
    /\ drugs = <<Row("Heparin", 5, 5)>>
    /\ shortages = <<>>
    /\ alerts = <<>>
    /\ InitRuns
    /\ fb_in = NoCall
    /\ fb_out = NotCalled
    /\ inv = InvIdle
    /\ gate = GateIdle
    /\ unit_call = UnitIdle

ConcNext ==
    \E r \in Runs :
        \/ Phase1Quiet(r)
        \/ OvStep(r)
        \/ Phase2Done(r)
        \/ Phase3(r)
        \/ Phase4(r)

ConcSpec == ConcInit /\ [][ConcNext]_vars

---------------------------------------------------------------------------
(* FallbackSpec: generate_fallback_decisions on drawn arguments *)

\* a drug of rank at most 5, one of a lower criticality, one that is not
\* monitored, and a row without a name
FbNames == {"Propofol", "Heparin", "Aspirin", NoName}

OptBurn == (0..MaxBurn) \cup {NoBurn}

\* rows: a predicted burn rate, when there is one, is at most the basic one
\* (agent_0 adds the surgery demand to the usage): the basic one is absent,
\* the same, or the largest
PredBurnPairs ==
    {pb \in OptBurn \X OptBurn :
        Truthy(pb[1]) => pb[2] \in {NoBurn, pb[1], MaxBurn}}

FbItems == {Row(n, pb[1], pb[2]) : n \in FbNames, pb \in PredBurnPairs}

Companion == Row("Heparin", 5, 5)

\* the drugs table keys its rows by name: no two rows share one
FbLists ==
    {<<>>} \cup {<<i>> : i \in FbItems}
           \cup {<<i, Companion>> : i \in {j \in FbItems : j.name # Companion.name}}

\* shortage rows: reported lately or long ago, with or without a link
FbShortageRows ==
    {[drug_name |-> n, source |-> su[1], source_url |-> su[2],
      reported_date |-> su[3]] :
        n \in {"Propofol", "Heparin"},
        su \in {<<"FDA openFDA API", "https://api.fda.gov", "recent">>,
                <<"FDA openFDA API", "https://api.fda.gov", "old">>,
                <<"Web Search", NoUrl, "recent">>}}

FbShortages == {<<>>} \cup {<<s>> : s \in FbShortageRows}

\* the rows reach the function as agent_0's drug_analysis (the inventory is
\* then ignored) or as the inventory itself
FbInputs ==
    {[inventory |-> l, inventory_analysis |-> <<>>, shortages |-> s] :
        l \in FbLists, s \in FbShortages}
    \cup
    {[inventory |-> <<Companion>>, inventory_analysis |-> l, shortages |-> s] :
        l \in FbLists \ {<<>>}, s \in FbShortages}

FbInit ==
    /\ drugs = <<>>
    /\ shortages = <<>>
    /\ alerts = <<>>
    /\ InitRuns
    /\ fb_in \in FbInputs
    /\ fb_out = NotCalled
    /\ inv = InvIdle
    /\ gate = GateIdle
    /\ unit_call = UnitIdle

\* analysis_payload = generate_fallback_decisions(inventory, agent_outputs,
\*                                                unresolved_shortages)
FbCall ==
    /\ ~fb_out.called
    /\ fb_out' = [called |-> TRUE,
                  res |-> generate_fallback_decisions(
                              fb_in.inventory, fb_in.inventory_analysis,
                              fb_in.shortages)]
    /\ UNCHANGED <<dbVars, runVars, ov, fb_in, auxVars>>

FbNext == FbCall

FallbackSpec == FbInit /\ [][FbNext]_vars

---------------------------------------------------------------------------
(* Properties of generate_fallback_decisions, checked under FallbackSpec *)

FbSource == DataSource(fb_in.inventory, fb_in.inventory_analysis)

FbRows == {FbSource[i] : i \in 1..Len(FbSource)}

\* a named, monitored drug whose burn rate is known
KnownMonitored(item) ==
    /\ item.name # NoName
    /\ IsMonitored(item.name)
    /\ BurnRateOf(item) # NoBurn

DecisionsFor(drug_name, action_type) ==
    SelectSeq(fb_out.res.decisions,
              LAMBDA d : d.drug_name = drug_name /\ d.action_type = action_type)

OrdersFor(drug_name) ==
    SelectSeq(fb_out.res.orders, LAMBDA o : o.drug_name = drug_name)

HasShortage(drug_name) == ShortagesOf(drug_name, fb_in.shortages) # <<>>

C9_SubstituteRule ==
    fb_out.called =>
        \A item \in FbRows :
            (KnownMonitored(item) /\ BurnRateOf(item) < 7) =>
                LET flagged == Rank(item.name) <= 5 /\ HasShortage(item.name)
                    listed == \E i \in 1..Len(fb_out.res.subs) :
                                  fb_out.res.subs[i] = item.name
                    advised ==
                        DecisionsFor(item.name, "SUBSTITUTE_RECOMMENDED") # <<>>
                IN  /\ listed <=> flagged
                    /\ advised <=> flagged

\* C10: for a monitored drug with 7 <= b < 14, generate_fallback_decisions
\* emits a SHORTAGE_WARNING Decision, URGENT when an unresolved shortage
\* record exists for the drug and WARNING otherwise, and queues an order for
\* the drug, EXPEDITED when a shortage exists and ROUTINE otherwise.
C10_WarningRule ==
    fb_out.called =>
        \A item \in FbRows :
            (KnownMonitored(item) /\ 7 <= BurnRateOf(item)
                                  /\ BurnRateOf(item) < 14) =>
                LET ds == DecisionsFor(item.name, "SHORTAGE_WARNING")
                    os == OrdersFor(item.name)
                IN  /\ Len(ds) = 1
                    /\ ds[1].severity =
                          IF HasShortage(item.name) THEN "URGENT" ELSE "WARNING"
                    /\ Len(os) = 1
                    /\ os[1].urgency =
                          IF HasShortage(item.name) THEN "EXPEDITED" ELSE "ROUTINE"

\* C11: for every monitored drug with 14 <= b < 30 that has an unresolved
\* shortage record, generate_fallback_decisions emits a SUPPLY_CHAIN_RISK
\* Decision, WARNING when the drug's rank is at most 5 and INFO otherwise.
C11_SupplyChainRiskRule ==
    fb_out.called =>
        \A item \in FbRows :
            (/\ KnownMonitored(item)
             /\ 14 <= BurnRateOf(item)
             /\ BurnRateOf(item) < 30
             /\ HasShortage(item.name)) =>
                LET ds == DecisionsFor(item.name, "SUPPLY_CHAIN_RISK")
                IN  /\ Len(ds) = 1
                    /\ ds[1].severity =
                          IF Rank(item.name) <= 5 THEN "WARNING" ELSE "INFO"

\* the drug is named by a decision, an order request or a substitute entry
Mentioned(drug_name) ==
    \/ \E i \in 1..Len(fb_out.res.decisions) :
          fb_out.res.decisions[i].drug_name = drug_name
    \/ OrdersFor(drug_name) # <<>>
    \/ \E i \in 1..Len(fb_out.res.subs) : fb_out.res.subs[i] = drug_name

LinkedAndRecent(s) == s.source_url # NoUrl /\ s.reported_date = "recent"

\* C16: a shortage record of the drug adds an Evidence entry (FDA when its
\* source label contains 'FDA', else NEWS) to a Decision only when it has
\* both a source URL and a reported date inside the recency window; the
\* evidence is the INVENTORY entry followed by the entries of those rows.
C16_ShortageEvidenceNeedsUrlAndDate ==
    fb_out.called =>
        \A i \in 1..Len(fb_out.res.decisions) :
            LET d == fb_out.res.decisions[i]
                rows == SelectSeq(ShortagesOf(d.drug_name, fb_in.shortages),
                                  LinkedAndRecent)
            IN  d.evidence =
                    <<[source_type |-> "INVENTORY", source_url |-> NoUrl]>>
                        \o MapEvidence(rows)

---------------------------------------------------------------------------
(* InvSpec: one drug from the drugs table through agent_0_inventory and
   the overseer's fallback rule engine *)

MaxStock == 20
MaxUsage == 3
MaxExtra == 2

\* shared.calculate_burn_rate
calculate_burn_rate(stock_quantity, usage_rate_daily) ==
    IF usage_rate_daily = 0 THEN NoRate
    ELSE Quotient(stock_quantity, usage_rate_daily)

\* a burn rate as the analysis row holds it; the inputs are drawn so that
\* every quotient is a whole number of days
WholeDays(q) == IF q.is_none THEN NoBurn ELSE q.num \div q.den

\* surgery_extra = surgery_demand.get(drug_name, 0) / 30.0
surgery_extra(demand) == demand \div 30

\* predicted_daily = daily_usage + surgery_extra
predicted_daily(daily_usage, demand) == daily_usage + surgery_extra(demand)

\* predicted_burn = calculate_burn_rate(current_stock, predicted_daily)
\*                  if predicted_daily > 0 else None
predicted_burn(current_stock, daily_usage, demand) ==
    IF predicted_daily(daily_usage, demand) > 0
    THEN calculate_burn_rate(current_stock,
                             predicted_daily(daily_usage, demand))
    ELSE NoRate

\* the risk_level generate_fallback_analysis gives a drug: `if
\* predicted_burn:` is false for None and for 0.0
risk_level(p, criticality_rank) ==
    IF p.is_none \/ p.num = 0 THEN "LOW"
    ELSE IF \/ p.num < 7 * p.den
            \/ (p.num < 14 * p.den /\ criticality_rank <= 3)
    THEN "CRITICAL"
    ELSE IF \/ p.num < 14 * p.den
            \/ (p.num < 21 * p.den /\ criticality_rank <= 5)
    THEN "HIGH"
    ELSE IF p.num < 30 * p.den THEN "MEDIUM"
    ELSE "LOW"

\* the drug_analysis entry generate_fallback_analysis appends for a drug
generate_fallback_analysis(drug_name, current_stock, daily_usage, demand) ==
    Row(drug_name,
        WholeDays(predicted_burn(current_stock, daily_usage, demand)),
        WholeDays(calculate_burn_rate(current_stock, daily_usage)))

\* the drugs, usage rates, surgery demands and shortage tables of a run;
\* the quotients are whole and a negative one differs from the None marker
Divides(d, n) == d <= 0 \/ n % d = 0

InvNames == {"Oxygen", "Heparin"}

\* criticality_rank = drug.get('criticality_rank', 99)
Ranks == {3, 5, 99}

InvInputs ==
    { [pc |-> "fetched", name |-> n, stock |-> st, usage |-> u,
       demand |-> 30 * k, shorts |-> sh, burn |-> NoRate,
       row |-> Row(NoName, NoBurn, NoBurn), out |-> EmptyOutcome,
       criticality_rank |-> r, risk_level |-> "none"] :
        n \in InvNames, st \in 0..MaxStock, u \in (0 - 1)..MaxUsage,
        k \in 0..MaxExtra, sh \in ShortageTables, r \in Ranks }

ExactInput(i) ==
    /\ Divides(i.usage, i.stock)
    /\ Divides(predicted_daily(i.usage, i.demand), i.stock)
    /\ (i.usage < 0 => i.stock # 1)

InvInit ==
    /\ drugs = <<>>
    /\ shortages = <<>>
    /\ alerts = <<>>
    /\ InitRuns
    /\ fb_in = NoCall
    /\ fb_out = NotCalled
    /\ inv \in { i \in InvInputs : ExactInput(i) }
    /\ gate = GateIdle
    /\ unit_call = UnitIdle

\* agent_0 run: drug['burn_rate_days'] = calculate_burn_rate(stock, usage)
CalcBurn ==
    /\ inv.pc = "fetched"
    /\ inv' = [inv EXCEPT !.pc = "rated",
                          !.burn = calculate_burn_rate(inv.stock, inv.usage)]
    /\ UNCHANGED <<dbVars, runVars, ov, fbVars, gate, unit_call>>

\* agent_0 run: call_dedalus raised, the fallback analysis is used
Analyse ==
    /\ inv.pc = "rated"
    /\ inv' = [inv EXCEPT !.pc = "analysed",
                          !.row = generate_fallback_analysis(
                                      inv.name, inv.stock, inv.usage,
                                      inv.demand),
                          !.risk_level = risk_level(
                                      predicted_burn(inv.stock, inv.usage,
                                                     inv.demand),
                                      inv.criticality_rank)]
    /\ UNCHANGED <<dbVars, runVars, ov, fbVars, gate, unit_call>>

\* agent_0 run: call_dedalus returned an analysis; its entry for the drug
\* repeats the burn rate of the prompt and predicts what the service likes
LLMPredictions == {NoBurn, 5}

AnalyseLLM ==
    /\ inv.pc = "rated"
    /\ \E p \in LLMPredictions :
          inv' = [inv EXCEPT !.pc = "analysed",
                             !.row = Row(inv.name, p, WholeDays(inv.burn))]
    /\ UNCHANGED <<dbVars, runVars, ov, fbVars, gate, unit_call>>

\* overseer run: the drugs row was updated from the analysis entry, the
\* logged analysis holds the same entry, and the rule engine decides
Synthesize ==
    /\ inv.pc = "analysed"
    /\ inv' = [inv EXCEPT !.pc = "done",
                          !.out = generate_fallback_decisions(
                                      <<inv.row>>, <<inv.row>>, inv.shorts)]
    /\ UNCHANGED <<dbVars, runVars, ov, fbVars, gate, unit_call>>

InvNext == CalcBurn \/ Analyse \/ AnalyseLLM \/ Synthesize

InvSpec == InvInit /\ [][InvNext]_vars

---------------------------------------------------------------------------
(* Claims over InvSpec *)

\* C13: a drug whose daily usage rate is 0 has an unknown burn rate, and
\* the fallback rule engine emits no decision, no order request and no
\* substitute entry for it, whatever the surgery demand, the predicted
\* values of the analysis or the shortage records.
C13_ZeroUsageNoDecision ==
    /\ (inv.pc \in {"rated", "analysed", "done"} /\ inv.usage = 0)
          => inv.burn.is_none
    /\ (inv.pc = "done" /\ inv.usage = 0) => inv.out = EmptyOutcome

\* C14: calculate_burn_rate returns stock/usage for every usage > 0 and
\* None for every usage that is not > 0; it never returns a negative
\* number of days.
C14_BurnRateContract ==
    inv.pc \in {"rated", "analysed", "done"} =>
        /\ inv.usage > 0 =>
              /\ ~inv.burn.is_none
              /\ inv.burn.num * inv.usage = inv.stock * inv.burn.den
        /\ ~(inv.usage > 0) => inv.burn.is_none
        /\ ~inv.burn.is_none => inv.burn.num >= 0

\* the Risk Level Assessment of the decision framework for a predicted
\* burn rate p in days and a criticality rank r
FrameworkRisk(p, r) ==
    IF p.is_none THEN "LOW"
    ELSE IF p.num < 7 * p.den \/ (p.num < 14 * p.den /\ r <= 3)
    THEN "CRITICAL"
    ELSE IF p.num < 14 * p.den \/ (p.num < 21 * p.den /\ r <= 5)
    THEN "HIGH"
    ELSE IF p.num < 30 * p.den THEN "MEDIUM"
    ELSE "LOW"

\* C39: the fallback analysis of the Inventory collector assigns the risk
\* level by the decision framework for every predicted burn rate p and
\* criticality rank r; LOW only when p is unknown or p >= 30; a drug with
\* zero stock and positive usage (p = 0) is CRITICAL.
C39_FallbackRiskLevel ==
    inv.risk_level # "none" =>
        inv.risk_level
          = FrameworkRisk(predicted_burn(inv.stock, inv.usage, inv.demand),
                          inv.criticality_rank)

---------------------------------------------------------------------------
(* GateSpec: listen_for_changes of main.py and its callback
   handle_db_change.  The callback runs on the event loop and blocks it
   until the quick run it launched is over; that run stops at its first
   call (agent_0_inventory.run takes no quick_mode).  uuid.uuid4() gives
   every run its run_id. *)

MaxTime == 7
MaxEvents == 13
MaxWrites == 11
MaxManual == 2

\* min_interval = 2  # Seconds - debounce quick clicks
min_interval == 2

\* skip_count = 10, after the initial run completed or failed
SkipAfterFullRun == 10

\* event_type not in ('UPDATE', 'INSERT', 'DELETE')
DbEvents == {"UPDATE", "INSERT", "DELETE"}

\* the payloads the Realtime client hands to the callback: one the try block
\* cannot read, or an event type (None included) on a table
GatePayloads ==
    {[parsable |-> TRUE, type |-> t, table |-> tb] :
        t \in DbEvents \cup {NoName}, tb \in {"drugs", "shortages"}}
    \cup {[parsable |-> FALSE, type |-> NoName, table |-> NoName]}

\* run_quick_pipeline at its try block: results["status"] = "success_quick"
QuickStarted == [pc |-> "phase1", calls |-> <<>>, status |-> "success_quick",
                 errors |-> <<>>]

\* agent_0_inventory.run(run_id, quick_mode=True): run takes run_id only,
\* so the call is a TypeError before the collector's body is entered
Agent0QuickCall == "TypeError"

\* run_quick_pipeline from its try block on: an exception sets status
\* "failed", appends str(e) to errors and is raised again; otherwise
\* agent_0 and overseer.run are called and results is returned
run_quick_pipeline(q) ==
    IF Agent0QuickCall = "TypeError"
    THEN [q EXCEPT !.pc = "raised", !.status = "failed",
                   !.errors = <<"TypeError">>]
    ELSE [q EXCEPT !.pc = "returned", !.calls = <<"agent_0", "overseer">>]

\* a debounce test one second narrower than min_interval
DebouncedNarrow(current_time, last_run_time) ==
    current_time - last_run_time < min_interval - 1

\* current_time - last_run_time < min_interval
Debounced(current_time, last_run_time) ==
    current_time - last_run_time < min_interval

\* a counter that drops two per event
DecrementedTwice(skip_count) == IF skip_count > 1 THEN skip_count - 2 ELSE 0

\* skip_count -= 1
Decremented(skip_count) == skip_count - 1

\* a callback without the table test
handle_db_change_any_table(g, payload) ==
    IF ~payload.parsable THEN [g EXCEPT !.last = "unparsable"]
    ELSE IF payload.type \notin DbEvents
    THEN [g EXCEPT !.last = "ignored_event"]
    ELSE IF g.skip_count > 0
    THEN [g EXCEPT !.skip_count = Decremented(g.skip_count),
                   !.seen = @ + 1, !.last = "skipped"]
    ELSE IF Debounced(g.now, g.last_run_time)
    THEN [g EXCEPT !.seen = @ + 1, !.last = "debounced"]
    ELSE [g EXCEPT !.last_run_time = g.now, !.seen = @ + 1,
                   !.launched = @ + 1, !.last = "launched",
                   !.pc = "in_quick_run", !.quick = QuickStarted]

\* handle_db_change(payload) with current_time = time.time() = g.now; seen
\* counts the events that passed the event and table tests, launched the
\* quick runs submitted, last is the branch the last event took
handle_db_change(g, payload) ==
    IF ~payload.parsable THEN [g EXCEPT !.last = "unparsable"]
    ELSE IF payload.type \notin DbEvents
    THEN [g EXCEPT !.last = "ignored_event"]
    ELSE IF payload.table # "drugs"
    THEN [g EXCEPT !.last = "ignored_table"]
    ELSE IF g.skip_count > 0
    THEN [g EXCEPT !.skip_count = Decremented(g.skip_count),
                   !.seen = @ + 1, !.last = "skipped"]
    ELSE IF Debounced(g.now, g.last_run_time)
    THEN [g EXCEPT !.seen = @ + 1, !.last = "debounced"]
    ELSE [g EXCEPT !.last_run_time = g.now, !.seen = @ + 1,
                   !.launched = @ + 1, !.last = "launched",
                   !.pc = "in_quick_run", !.quick = QuickStarted]

\* uuid.uuid4(): a value no earlier call returned
uuid4(g) == g.uuids + 1

\* run_id = uuid.uuid4() at the top of run_pipeline and run_quick_pipeline
NewRunToken(g) ==
    [g EXCEPT !.uuids = uuid4(g), !.run_tokens = @ \cup {uuid4(g)}]

\* listen_for_changes starts: last_run_time = 0, skip_count = 0; time.time()
\* is past min_interval
GateInit ==
    /\ drugs = <<>>
    /\ shortages = <<>>
    /\ alerts = <<>>
    /\ InitRuns
    /\ fb_in = NoCall
    /\ fb_out = NotCalled
    /\ inv = InvIdle
    /\ gate = [GateIdle EXCEPT !.pc = "subscribing", !.now = min_interval]
    /\ unit_call = UnitIdle

\* await channel.on_postgres_changes(...).subscribe(); a failure ends
\* listen_for_changes in its except clause
Subscribe ==
    /\ gate.pc = "subscribing"
    /\ \E ok \in BOOLEAN :
          gate' = [gate EXCEPT !.pc = IF ok THEN "starting" ELSE "closed"]
    /\ UNCHANGED <<dbVars, runVars, ov, fbVars, inv, unit_call>>

\* the initial run_pipeline, awaited with future.result(): no callback runs
\* meanwhile; skip_count = 10 whether it returned or raised; agent_0
\* updated the drugs rows its analysis names, one change event each
InitialRun ==
    /\ gate.pc = "starting"
    /\ \E t \in gate.now..MaxTime, k \in 0..MaxWrites :
          gate' = [NewRunToken(gate) EXCEPT
                               !.pc = "waiting", !.now = t,
                               !.skip_count = SkipAfterFullRun,
                               !.own_writes = k, !.full_runs = @ + 1]
    /\ UNCHANGED <<dbVars, runVars, ov, fbVars, inv, unit_call>>

\* while True: await asyncio.sleep(1)
Tick ==
    /\ gate.pc = "waiting"
    /\ gate.now < MaxTime
    /\ gate' = [gate EXCEPT !.now = @ + 1]
    /\ UNCHANGED <<dbVars, runVars, ov, fbVars, inv, unit_call>>

\* supabase.table('drugs').update(update_data) of agent_0, as the listener
\* receives it
OwnWrite == [parsable |-> TRUE, type |-> "UPDATE", table |-> "drugs"]

Origins == {"external", "own"}

\* the callback on an event of the given origin
Delivered(g, payload, origin) ==
    LET l == handle_db_change(g, payload)
        h == IF l.launched > g.launched THEN NewRunToken(l) ELSE l
    IN  [h EXCEPT !.own_writes = IF origin = "own" THEN @ - 1 ELSE @,
                  !.cause = IF h.launched > g.launched THEN origin ELSE @,
                  !.edits = IF origin = "external" /\ h.seen > g.seen
                            THEN @ + 1 ELSE @]

\* the Realtime client calls handle_db_change
HandleDbChange ==
    /\ gate.pc = "waiting"
    /\ gate.seen < MaxEvents
    /\ \E payload \in GatePayloads, origin \in Origins :
          /\ origin = "own" => gate.own_writes > 0 /\ payload = OwnWrite
          /\ gate' = Delivered(gate, payload, origin)
    /\ UNCHANGED <<dbVars, runVars, ov, fbVars, inv, unit_call>>

\* a callback that lets the exception of the quick run through to
\* listen_for_changes, whose except clause ends the listener
AfterQuickRunUncaught(g, q) ==
    [g EXCEPT !.pc = IF q.pc = "raised" THEN "closed" ELSE "waiting",
              !.quick = q,
              !.quick_failures = IF q.pc = "raised" THEN @ + 1 ELSE @]

\* try: ... result = future.result(); print(status)
\* except Exception as e: print(f"Quick pipeline failed: {e}")
AfterQuickRun(g, q) ==
    [g EXCEPT !.pc = "waiting", !.quick = q,
              !.quick_failures = IF q.pc = "raised" THEN @ + 1 ELSE @]

\* future.result() of the quick run: the callback waits for it, prints its
\* status or its exception and returns; the run takes time
QuickRun ==
    /\ gate.pc = "in_quick_run"
    /\ \E t \in gate.now..MaxTime :
          gate' = AfterQuickRun([gate EXCEPT !.now = t],
                                run_quick_pipeline(gate.quick))
    /\ UNCHANGED <<dbVars, runVars, ov, fbVars, inv, unit_call>>

\* manual_run_pipeline: run_id = str(uuid.uuid4()) goes into the response;
\* the background task calls run_pipeline(), which takes no argument and
\* draws its own run_id
manual_run_pipeline(g) ==
    LET responded == [g EXCEPT !.uuids = uuid4(g), !.response_id = uuid4(g)]
    IN  [NewRunToken(responded) EXCEPT !.manual_token = uuid4(responded),
                                       !.manual_runs = @ + 1]

\* server.py, another process: POST /api/run-pipeline runs run_pipeline,
\* whose agent_0 updates drugs rows; the listener is not told
ManualRun ==
    /\ gate.pc = "waiting"
    /\ gate.own_writes = 0
    /\ gate.manual_runs < MaxManual
    /\ \E k \in 1..MaxWrites :
          gate' = [manual_run_pipeline(gate) EXCEPT !.own_writes = k]
    /\ UNCHANGED <<dbVars, runVars, ov, fbVars, inv, unit_call>>

GateNext ==
    Subscribe \/ InitialRun \/ Tick \/ HandleDbChange \/ QuickRun \/ ManualRun

GateSpec == GateInit /\ [][GateNext]_vars

\* asyncio.run(listen_for_changes()): the event loop keeps taking the
\* listener's own steps (the subscription, the startup run, a pending
\* future.result(), the keep-alive sleep); change events and manual runs
\* come from outside and may never come
GateFairSpec ==
    /\ GateSpec
    /\ WF_vars(Subscribe) /\ WF_vars(InitialRun)
    /\ WF_vars(QuickRun) /\ WF_vars(Tick)

---------------------------------------------------------------------------
(* Claims over GateSpec *)

\* the step handles an event that passed the event and table tests
QualifyingEvent == gate.pc = "waiting" /\ gate'.seen = gate.seen + 1

\* C19: a qualifying event that arrives less than min_interval after the
\* previous accepted trigger never launches a quick run and leaves the
\* last-accepted-trigger timestamp as it was; the timestamp changes only
\* when a quick run is launched.
C19_Debounce ==
    [][/\ (QualifyingEvent /\ gate.now - gate.last_run_time < min_interval)
            => /\ gate'.launched = gate.launched
               /\ gate'.last_run_time = gate.last_run_time
       /\ gate'.last_run_time # gate.last_run_time
            => /\ QualifyingEvent
               /\ gate'.launched = gate.launched + 1
               /\ gate'.last_run_time = gate.now]_vars

\* a quick run was launched and a later qualifying event inside the window
\* was suppressed by the debounce test
C19_Witness ==
    /\ gate.launched >= 1
    /\ gate.last = "debounced"
    /\ gate.now - gate.last_run_time < min_interval

\* C20: after the full run set the skip counter to N, the first N
\* qualifying events are suppressed whatever their timing: each decrements
\* the counter by exactly one and launches nothing; the counter never
\* becomes negative; the (N+1)-th qualifying event is not suppressed by
\* the counter.
C20_SkipCounter ==
    [][/\ gate'.skip_count >= 0
       /\ gate.pc = "starting" /\ gate'.pc = "waiting"
            => gate'.skip_count = SkipAfterFullRun /\ gate'.seen = 0
       /\ (QualifyingEvent /\ gate.seen < SkipAfterFullRun)
            => /\ gate'.skip_count = gate.skip_count - 1
               /\ gate'.launched = gate.launched
               /\ gate'.last_run_time = gate.last_run_time
               /\ gate'.last = "skipped"
       /\ (QualifyingEvent /\ gate.seen >= SkipAfterFullRun)
            => /\ gate.skip_count = 0
               /\ gate'.skip_count = 0
               /\ gate'.last \in {"launched", "debounced"}]_vars

\* ten events were suppressed by the counter and the eleventh launched the
\* first quick run
C20_Witness ==
    /\ gate.seen = SkipAfterFullRun + 1
    /\ gate.skip_count = 0
    /\ gate.launched = 1
    /\ gate.last = "launched"

\* an insert, update or delete on the watched drugs table
OnWatchedTable(payload) ==
    payload.parsable /\ payload.type \in DbEvents /\ payload.table = "drugs"

IgnoredBranches == {"unparsable", "ignored_event", "ignored_table"}

\* C21: an event whose type is not INSERT, UPDATE or DELETE, or whose table
\* is not the drugs table, or whose payload cannot be parsed, is ignored:
\* it launches no quick run and leaves the skip counter and the
\* last-accepted-trigger timestamp unchanged.
C21_OtherEventsIgnored ==
    gate.pc = "waiting" =>
          \A payload \in GatePayloads :
              ~OnWatchedTable(payload) =>
                  LET g == handle_db_change(gate, payload)
                  IN  /\ g.launched = gate.launched
                      /\ g.skip_count = gate.skip_count
                      /\ g.last_run_time = gate.last_run_time
                      /\ g.seen = gate.seen
                      /\ g.last \in IgnoredBranches

\* an event on another table was ignored at a moment at which an event on
\* the drugs table would have launched a quick run
C21_Witness ==
    /\ gate.pc = "waiting"
    /\ gate.last = "ignored_table"
    /\ gate.skip_count = 0
    /\ ~Debounced(gate.now, gate.last_run_time)

\* C22: the event handler returns without waiting for the quick run it
\* launches: while a gate-launched quick run is in flight the gate is
\* listening and can receive and classify the next change event.
C22_HandlerDoesNotWait ==
    gate.quick.pc = "phase1" => gate.pc = "waiting"

\* C23: no quick run is launched in response to a drugs-table change event
\* produced by a pipeline run's own writes, whichever entry point started
\* that run; only external edits launch a quick run.
C23_OwnWritesNeverLaunch ==
    gate.cause # "own"

\* the units a finished quick run called
QuickCalls(unit) ==
    Cardinality({i \in 1..Len(gate.quick.calls) : gate.quick.calls[i] = unit})

\* C24: every execution of run_quick_pipeline invokes none of the
\* Shortage-Registry collector, the News collector, the Substitute Finder
\* and the Order Manager, and invokes overseer.run exactly once.
C24_QuickRunRerunsSynthesis ==
    gate.quick.pc \in {"raised", "returned"} =>
        /\ \A unit \in {"agent_1", "agent_2", "agent_3", "agent_4"} :
              QuickCalls(unit) = 0
        /\ QuickCalls("overseer") = 1

\* C35: after the listener's startup full run the skip counter suppresses
\* only that run's own change events: whatever number k of drug records the
\* run updated (k = 0 included), the first external edit of a drug record
\* that arrives after those k events and outside the debounce window
\* launches a quick run.
C35_SkipOnlySelfWrites ==
    [][(/\ gate.pc = "waiting"
        /\ gate.own_writes = 0
        /\ gate.edits = 0
        /\ gate'.edits = 1
        /\ ~Debounced(gate.now, gate.last_run_time))
       => gate'.last = "launched"]_vars

\* C36: a quick run that raises inside the Trigger Gate does not end or
\* wedge the gate: the handler catches the exception and the gate listens
\* again, the skip counter and the last-accepted-trigger timestamp are what
\* they were at the launch, and every later qualifying event that passes
\* the skip counter and the debounce test launches a quick run again.
C36_FailedQuickRunKeepsGate ==
    [][/\ (gate.pc = "in_quick_run" /\ gate'.quick.pc = "raised")
            => /\ gate'.pc = "waiting"
               /\ gate'.skip_count = gate.skip_count
               /\ gate'.last_run_time = gate.last_run_time
               /\ gate'.launched = gate.launched
       /\ (/\ gate.quick_failures >= 1
           /\ QualifyingEvent
           /\ gate.skip_count = 0
           /\ ~Debounced(gate.now, gate.last_run_time))
            => /\ gate'.launched = gate.launched + 1
               /\ gate'.pc = "in_quick_run"
               /\ gate'.last_run_time = gate.now]_vars

\* a quick run raised, and a later event on the drugs table launched the
\* next one
C36_Witness ==
    /\ gate.quick_failures >= 1
    /\ gate.launched = gate.quick_failures + 1
    /\ gate.pc = "in_quick_run"
    /\ gate.last = "launched"

\* C37: the run id the manual trigger returns to its caller is the run
\* token of the full run it starts, the one every Finding and Alert of that
\* run carries; and distinct runs never share a run token.
C37_ManualRunIdIsRunToken ==
    /\ gate.manual_runs >= 1 => gate.response_id = gate.manual_token
    /\ Cardinality(gate.run_tokens)
          = gate.full_runs + gate.launched + gate.manual_runs

\* C31: in run-continuously mode the system is an interval loop of full
\* runs: after a full run has finished, successfully or not, another full
\* run is eventually started, with no external edit of the drug records
\* needed.
C31_IntervalLoop ==
    (gate.full_runs = 1) ~> (gate.full_runs >= 2)

---------------------------------------------------------------------------
(* UnitSpec: one call of run of a collector (agent_0, agent_1, agent_2) or
   of a downstream unit (agent_3, agent_4, called with a non-empty list),
   statement group by statement group *)

UnitInit ==
    /\ drugs = <<>>
    /\ shortages = <<>>
    /\ alerts = <<>>
    /\ InitRuns
    /\ fb_in = NoCall
    /\ fb_out = NotCalled
    /\ inv = InvIdle
    /\ gate = GateIdle
    /\ unit_call \in {[UnitIdle EXCEPT !.agent = a, !.pc = "fetch"] :
                        a \in CollectorSet \cup {"agent_3", "agent_4"}}

\* outcomes of the reads before the reasoning call: done, a storage read
\* raised, another statement raised; agent_2 can find no article
FetchOutcomes(a) ==
    {"ok", "storage_down", "raised"}
        \cup (IF a = "agent_2" THEN {"no_articles"} ELSE {})

\* the statements of the try block before call_dedalus
UnitFetch ==
    /\ unit_call.pc = "fetch"
    /\ \E f \in FetchOutcomes(unit_call.agent) :
          unit_call' = [unit_call EXCEPT
                     !.pc = IF f = "ok" THEN "llm"
                            ELSE IF f = "no_articles" THEN "log" ELSE "except",
                     !.analysis = IF f = "no_articles" THEN "no_articles"
                                  ELSE @,
                     !.io_failed = (f = "storage_down")]
    /\ UNCHANGED <<dbVars, runVars, ov, fbVars, inv, gate>>

\* the payload the unit goes on with after call_dedalus ended with the
\* outcome; "except" when the outer except clause is entered.  agent_0,
\* agent_1, agent_3 and agent_4 wrap the call in try/except and compute
\* generate_fallback_analysis, then call analysis.get, which None lacks;
\* agent_2 calls it bare and writes llm_analysis or generate_fallback_analysis
AfterCall(a, outcome) ==
    IF outcome \in LLMFailures
    THEN IF a = "agent_2" THEN "except" ELSE "fallback"
    ELSE IF outcome = "empty"
    THEN IF a = "agent_2" THEN "fallback" ELSE "except"
    ELSE IF outcome = "mock" THEN "mock" ELSE "llm"

UnitLLM ==
    /\ unit_call.pc = "llm"
    /\ \E outcome \in LLMOutcomes :
          unit_call' = [unit_call EXCEPT
                     !.llm = outcome,
                     !.pc = IF AfterCall(unit_call.agent, outcome) = "except"
                            THEN "except" ELSE "store",
                     !.analysis = IF AfterCall(unit_call.agent, outcome) = "except"
                                  THEN @ ELSE AfterCall(unit_call.agent, outcome)]
    /\ UNCHANGED <<dbVars, runVars, ov, fbVars, inv, gate>>

\* the table writes between the reasoning call and the log: drugs.update,
\* shortages.insert / update, substitutes.upsert, alerts.insert
UnitStore ==
    /\ unit_call.pc = "store"
    /\ \E ok \in BOOLEAN :
          unit_call' = [unit_call EXCEPT !.pc = IF ok THEN "log" ELSE "except",
                               !.io_failed = @ \/ ~ok]
    /\ UNCHANGED <<dbVars, runVars, ov, fbVars, inv, gate>>

\* log_agent_output(AGENT_NAME, run_id, analysis, summary) in the try block
UnitLog ==
    /\ unit_call.pc = "log"
    /\ \E ok \in BOOLEAN :
          IF ok
          THEN /\ agent_logs' =
                     LogInsert(Finding(unit_call.agent, 1, "normal", <<>>))
               /\ unit_call' = [unit_call EXCEPT !.pc = "logged",
                                       !.logged = Append(@, unit_call.analysis)]
          ELSE /\ unit_call' = [unit_call EXCEPT !.pc = "except", !.io_failed = TRUE]
               /\ UNCHANGED agent_logs
    /\ UNCHANGED <<drugs, shortages, alerts, next_id, runVars, ov, fbVars,
                   inv, gate>>

\* the statements between the log and the return can raise in agent_4,
\* which formats cost_summary.get('total_estimated_cost', 0) with ":,.2f"
\* and takes len() of hospital_transfer_requests of the service's answer
RaisesAfterLog(a, analysis) ==
    IF a = "agent_4" /\ analysis = "llm" THEN BOOLEAN ELSE {FALSE}

UnitReturn ==
    /\ unit_call.pc = "logged"
    /\ \E raises \in RaisesAfterLog(unit_call.agent, unit_call.analysis) :
          unit_call' = [unit_call EXCEPT !.pc = IF raises THEN "except" ELSE "returned"]
    /\ UNCHANGED <<dbVars, runVars, ov, fbVars, inv, gate>>

\* except Exception: log_agent_output(AGENT_NAME, run_id, error_payload, ..)
UnitExcept ==
    /\ unit_call.pc = "except"
    /\ \E ok \in BOOLEAN :
          IF ok
          THEN /\ agent_logs' =
                     LogInsert(Finding(unit_call.agent, 1, "error", <<>>))
               /\ unit_call' = [unit_call EXCEPT !.pc = CollectorErrorExit(unit_call.agent),
                                       !.logged = Append(@, "error")]
          ELSE /\ unit_call' = [unit_call EXCEPT !.pc = "raised", !.io_failed = TRUE]
               /\ UNCHANGED agent_logs
    /\ UNCHANGED <<drugs, shortages, alerts, next_id, runVars, ov, fbVars,
                   inv, gate>>

UnitNext ==
    UnitFetch \/ UnitLLM \/ UnitStore \/ UnitLog \/ UnitReturn \/ UnitExcept

UnitSpec == UnitInit /\ [][UnitNext]_vars

---------------------------------------------------------------------------
(* Claims over UnitSpec *)

UnitDone == unit_call.pc \in {"returned", "raised"}

\* C29: for each of the three collectors, whenever its reasoning-service
\* call raises or returns malformed output while its raw data was fetched,
\* the collector's run does not fail and the Finding it appends for the run
\* token is the one computed by generate_fallback_analysis, not an error
\* Finding (storage being reachable).
C29_CollectorFallback ==
    (/\ unit_call.agent \in CollectorSet
     /\ UnitDone
     /\ unit_call.llm \in LLMFailures
     /\ ~unit_call.io_failed)
        => /\ unit_call.pc = "returned"
           /\ unit_call.logged = <<"fallback">>

\* the Findings of the unit for the run token, copies counted
FindingCount ==
    CopiesIn(Finding(unit_call.agent, 1, "normal", <<>>), agent_logs)
        + CopiesIn(Finding(unit_call.agent, 1, "error", <<>>), agent_logs)

\* C30: Findings are append-only and complete per unit: every unit that is
\* invoked in a run and whose storage is reachable leaves exactly one
\* Finding with the run's token, a normal payload when it succeeded, a
\* payload with an 'error' field and no normal payload when it failed.
C30_OneFindingPerUnit ==
    /\ Len(unit_call.logged) = FindingCount
    /\ (UnitDone /\ ~unit_call.io_failed) =>
          /\ FindingCount = 1
          /\ unit_call.pc = "raised" => unit_call.logged = <<"error">>
          /\ (unit_call.pc = "returned" /\ unit_call.agent # "agent_2")
                => unit_call.logged[1] # "error"

===========================================================================
